---- MODULE Spec2Model ----
(***************************************************************************)
(* Forecast decoding (data/Forecast.ts), the period selector grouping and  *)
(* the hour-offset navigation buttons (PeriodSelector.tsx) of soaringmeteo.*)
(*                                                                         *)
(* Instants are counted in minutes since the epoch (the source counts      *)
(* milliseconds; one hour is MinutesPerHour minutes instead of 3600000 ms).*)
(* A JSON value that may be absent is a sequence of length 0 (undefined)   *)
(* or 1 (the value).                                                       *)
(***************************************************************************)
EXTENDS Integers, Sequences, FiniteSets, TLC

VARIABLES data, metadata, timezoneOffset, detailedView,
          locationForecasts, hourOffset, event, thrown

vars == <<data, metadata, timezoneOffset, detailedView,
          locationForecasts, hourOffset, event, thrown>>

\* ------------------------------------------------------------------ bounds
MaxPeriods == 7
MaxIrregularPeriods == 3
MaxProfile == 3

\* ------------------------------------------------------- program constants
MinutesPerHour == 60
MinutesPerDay == 1440
periodsPerDay == 3
MinOffset == 3
PeriodStep == 3
DayStep == 24

\* ------------------------------------------------------------- JS values
Undefined == <<>>
Some(x) == <<x>>
IsUndefined(x) == Len(x) = 0
NaN == [num |-> 0, den |-> 0]

\* x / n on a possibly absent number: undefined / n is NaN
JsDiv(x, n) == IF IsUndefined(x) THEN NaN ELSE [num |-> x[1], den |-> n]

Max(a, b) == IF a >= b THEN a ELSE b
Min(a, b) == IF a <= b THEN a ELSE b

\* Math.round: the nearest integer, halves towards +infinity
MathRound(num, den) == (2 * num + den) \div (2 * den)

\* new Date(isoString): <<day since epoch, hour, minute>> to an instant
DateParse(t) == t[1] * MinutesPerDay + t[2] * MinutesPerHour + t[3]

\* mutant: Date.getDate()-like key, the local calendar day
getDate(date, tz) == (date - tz) \div MinutesPerDay

\* Date.getDay(): the local day of the week, 0 = Sunday; the epoch was a Thursday
getDay(date, tz) == (((date - tz) \div MinutesPerDay) + 4) % 7

\* ------------------------------------------------------------- decoding
AboveGroundEntry(entry) ==
  [elevation |-> entry.h, u |-> entry.u, v |-> entry.v,
   temperature |-> entry.t, dewPoint |-> entry.dt,
   cloudCover |-> JsDiv(Some(entry.c), 100)]

\* mutant: keeps the entry at the terrain elevation
KeepsEntryInclusive(e, elevation) == e.h >= elevation
KeepsEntry(e, elevation) == e.h > elevation

aboveGroundOf(p, elevation) ==
  LET RECURSIVE Filter(_)
      Filter(i) == IF i > Len(p) THEN <<>>
                   ELSE IF KeepsEntry(p[i], elevation)
                        THEN <<AboveGroundEntry(p[i])>> \o Filter(i + 1)
                        ELSE Filter(i + 1)
  IN Filter(1)

\* reading a property of undefined, or calling a method on it, throws a TypeError
DetailedForecastThrows(d) ==
  IsUndefined(d.bl) \/ IsUndefined(d.p) \/ IsUndefined(d.w)

DetailedForecast(d, elevation) ==
  [time |-> DateParse(d.t),
   xcPotential |-> d.xc,
   xcPotentialFlatlands |-> IF ~IsUndefined(d.xcf) THEN d.xcf ELSE Some(0),
   thermalVelocity |-> JsDiv(d.v, 10),
   boundaryLayer |->
     [depth |-> d.bl[1].h,
      soaringLayerDepth |-> IF ~IsUndefined(d.bl[1].c) THEN Some(d.bl[1].c[1][1]) ELSE d.bl[1].h,
      wind |-> [u |-> d.bl[1].u, v |-> d.bl[1].v],
      cumulusClouds |-> IF IsUndefined(d.bl[1].c) THEN Undefined
                        ELSE Some([bottom |-> d.bl[1].c[1][1], top |-> d.bl[1].c[1][2]])],
   surface |-> [temperature |-> d.s.t, dewPoint |-> d.s.dt,
                wind |-> [u |-> d.s.u, v |-> d.s.v]],
   cloudCover |-> JsDiv(d.c, 100),
   rain |-> [convective |-> d.r.c, total |-> d.r.t],
   meanSeaLevelPressure |-> d.mslet,
   isothermZero |-> IF ~IsUndefined(d.iso) THEN d.iso ELSE Undefined,
   aboveGround |-> aboveGroundOf(d.p[1], elevation),
   winds |-> [soaringLayerTop |-> d.w[1][1], _300MAGL |-> d.w[1][2],
              _2000MAMSL |-> d.w[1][3], _3000MAMSL |-> d.w[1][4],
              _4000MAMSL |-> d.w[1][5]]]

DayForecastsThrows(day) ==
  IsUndefined(day.h) \/ \E i \in 1..Len(day.h[1]) : DetailedForecastThrows(day.h[1][i])

DayForecasts(day, elevation) ==
  [thunderstormRisk |-> day.th,
   forecasts |-> [i \in 1..Len(day.h[1]) |-> DetailedForecast(day.h[1][i], elevation)]]

LocationForecastsThrows(raw) ==
  \E i \in 1..Len(raw.d) : DayForecastsThrows(raw.d[i])

LocationForecasts(raw) ==
  [elevation |-> raw.h,
   dayForecasts |-> [i \in 1..Len(raw.d) |-> DayForecasts(raw.d[i], raw.h)]]

\* ------------------------------------------------------- temporal index
hourOffsetSinceFirstTimeStep(forecast, firstTimeStep) ==
  MathRound(forecast.time - firstTimeStep, MinutesPerHour)

\* mutant: concatenates the days in reverse
FlattenReversed(lf) ==
  LET RECURSIVE Reduce(_)
      Reduce(i) == IF i = 0 THEN <<>>
                   ELSE lf.dayForecasts[i].forecasts \o Reduce(i - 1)
  IN Reduce(Len(lf.dayForecasts))

\* dayForecasts.map(_ => _.forecasts).reduce((x, y) => x.concat(y), [])
Flatten(lf) ==
  LET RECURSIVE Reduce(_)
      Reduce(i) == IF i = 0 THEN <<>>
                   ELSE Reduce(i - 1) \o lf.dayForecasts[i].forecasts
  IN Reduce(Len(lf.dayForecasts))

offsetAndDates(lf, md) ==
  LET flat == Flatten(lf)
  IN [i \in 1..Len(flat) |->
        <<hourOffsetSinceFirstTimeStep(flat[i], md.firstTimeStep), flat[i].time>>]

\* mutant: accepts the neighbouring hour
MatchesNearest(forecast, offset, md) ==
  hourOffsetSinceFirstTimeStep(forecast, md.firstTimeStep) \in (offset - 1)..(offset + 1)
Matches(forecast, offset, md) ==
  hourOffsetSinceFirstTimeStep(forecast, md.firstTimeStep) = offset

\* Array.find: the first element satisfying the predicate, or undefined
atHourOffset(lf, md, offset) ==
  LET flat == Flatten(lf)
      hits == {i \in 1..Len(flat) : Matches(flat[i], offset, md)}
  IN IF hits = {} THEN Undefined
     ELSE Some(flat[CHOOSE i \in hits : \A j \in hits : i <= j])

\* ------------------------------------------------------- period selector
\* one selector per forecast period: <<element, hourOffset, date>>; the element
\* created for the i-th period is identified by i
flatPeriodSelectors(forecastOffsetAndDates) ==
  [i \in 1..Len(forecastOffsetAndDates) |->
     <<i, forecastOffsetAndDates[i][1], forecastOffsetAndDates[i][2]>>]

SameGroup(day, lastDay) == Some(day) = lastDay

\* mutant: pushes to the first group
GroupStepFirst(result, selector, lastDay, tz) ==
  IF SameGroup(getDay(selector[3], tz), lastDay)
  THEN [result EXCEPT ![1][1] = Append(@, <<selector[1], selector[2]>>)]
  ELSE Append(result, << <<<<selector[1], selector[2]>>>>, selector[3] >>)

\* one forEach step: push to the last group or start a new one
GroupStep(result, selector, lastDay, tz) ==
  IF SameGroup(getDay(selector[3], tz), lastDay)
  THEN [result EXCEPT ![Len(result)][1] = Append(@, <<selector[1], selector[2]>>)]
  ELSE Append(result, << <<<<selector[1], selector[2]>>>>, selector[3] >>)

\* groups of <<periods, date>>, periods being <<element, hourOffset>> pairs
periodSelectorsByDay(flat, tz) ==
  LET RECURSIVE ForEach(_, _, _)
      ForEach(i, result, lastDay) ==
        IF i > Len(flat) THEN result
        ELSE ForEach(i + 1, GroupStep(result, flat[i], lastDay, tz),
                     Some(getDay(flat[i][3], tz)))
  IN ForEach(1, <<>>, Undefined)

Nbsp == <<>>
toLocaleDateString(date, tz) ==
  <<getDay(date, tz), (date - tz) \div MinutesPerDay>>

\* mutant: labels every bucket of at least periodsPerDay periods
DayLabelAtLeast(periods, date, tz) ==
  IF Len(periods) >= periodsPerDay THEN toLocaleDateString(date, tz) ELSE Nbsp

\* the text of a day header
DayLabel(periods, date, tz) ==
  IF Len(periods) = periodsPerDay THEN toLocaleDateString(date, tz) ELSE Nbsp

\* ---------------------------------------------------------- detailed view
keyAndView(view, lf, md, offset) ==
  IF IsUndefined(lf) THEN "fallback"
  ELSE IF view = "meteogram" THEN "meteogram"
  ELSE IF IsUndefined(atHourOffset(lf[1], md, offset)) THEN "fallback"
  ELSE "sounding"

\* ------------------------------------------------------------ navigation
\* mutant: no lower clamp
previousPeriodOffsetUnclamped(h, md) == h - PeriodStep
previousDayOffset(h, md) == Max(h - DayStep, MinOffset)
previousPeriodOffset(h, md) == Max(h - PeriodStep, MinOffset)
nextPeriodOffset(h, md) == Min(h + PeriodStep, md.latest)
nextDayOffset(h, md) == Min(h + DayStep, md.latest)

\* ----------------------------------------------------------------- state
Selected == ~IsUndefined(locationForecasts)
Timeline == offsetAndDates(locationForecasts[1], metadata)
Offsets == {Timeline[i][1] : i \in 1..Len(Timeline)}
Selectors == flatPeriodSelectors(Timeline)
Buckets == periodSelectorsByDay(Selectors, timezoneOffset)
View == keyAndView(detailedView, locationForecasts, metadata, hourOffset)

\* the owner of the component stores the offset it is handed
onHourOffsetChanged(h, e) ==
  /\ hourOffset' = h
  /\ event' = e
  /\ thrown' = "none"
  /\ UNCHANGED <<data, metadata, timezoneOffset, detailedView, locationForecasts>>

\* new LocationForecasts(data, metadata, ...) when a location is selected
Select ==
  /\ ~Selected
  /\ event' = "select"
  /\ IF LocationForecastsThrows(data)
     THEN thrown' = "TypeError" /\ UNCHANGED locationForecasts
     ELSE thrown' = "none" /\ locationForecasts' = Some(LocationForecasts(data))
  /\ UNCHANGED <<data, metadata, timezoneOffset, detailedView, hourOffset>>

\* the X button, shown while a location is selected
Close ==
  /\ Selected
  /\ locationForecasts' = Undefined
  /\ event' = "close"
  /\ thrown' = "none"
  /\ UNCHANGED <<data, metadata, timezoneOffset, detailedView, hourOffset>>

previousDayBtn == onHourOffsetChanged(previousDayOffset(hourOffset, metadata), "previousDay")
previousPeriodBtn == onHourOffsetChanged(previousPeriodOffset(hourOffset, metadata), "previousPeriod")
nextPeriodBtn == onHourOffsetChanged(nextPeriodOffset(hourOffset, metadata), "nextPeriod")
nextDayBtn == onHourOffsetChanged(nextDayOffset(hourOffset, metadata), "nextDay")

\* a click on the selector of one period; with no location selected the selectors
\* come from forecastOffsets of ForecastMetadata, which is outside these sources
PeriodClick ==
  /\ Selected
  /\ \E i \in 1..Len(Selectors) : onHourOffsetChanged(Selectors[i][2], "period")

\* mutant: periods[1][0], the element instead of its offset
DayTargetElement(periods) == periods[2][1]
\* the offset a click on a day header asks for: periods[1][1], zero-based
DayTarget(periods) == periods[2][2]
DayClickThrows(periods) == Len(periods) < 2

\* a click on the header of one day
DayClick ==
  /\ Selected
  /\ \E b \in 1..Len(Buckets) :
       IF DayClickThrows(Buckets[b][1])
       THEN /\ thrown' = "TypeError"
            /\ event' = "day"
            /\ UNCHANGED <<data, metadata, timezoneOffset, detailedView,
                           locationForecasts, hourOffset>>
       ELSE onHourOffsetChanged(DayTarget(Buckets[b][1]), "day")

Next ==
  \/ Select
  \/ Close
  \/ previousDayBtn
  \/ previousPeriodBtn
  \/ nextPeriodBtn
  \/ nextDayBtn
  \/ PeriodClick
  \/ DayClick

\* ---------------------------------------------------------------- inputs
IsoString(time) ==
  <<time \div MinutesPerDay, (time % MinutesPerDay) \div MinutesPerHour,
    time % MinutesPerHour>>

ProfileEntry(h) == [h |-> h, t |-> 10, dt |-> 5, u |-> 3, v |-> 4, c |-> 45]

WireProfile(levels) == [i \in 1..Len(levels) |-> ProfileEntry(levels[i])]

HourRecord(time, levels) ==
  [t |-> IsoString(time), xc |-> 50, xcf |-> Some(40), v |-> Some(73),
   bl |-> Some([h |-> Some(900), u |-> 5, v |-> 6, c |-> Some(<<700, 1100>>)]),
   p |-> Some(WireProfile(levels)),
   s |-> [t |-> 15, dt |-> 8, u |-> 1, v |-> 2],
   iso |-> Some(2500), r |-> [t |-> 2, c |-> 1], mslet |-> 1013, c |-> Some(45),
   w |-> Some([i \in 1..5 |-> [u |-> i, v |-> i]])]

RequiredFields == {"v", "c", "bl", "bl.h", "p", "w"}
OptionalFields == {"xcf", "bl.c", "iso"}

Without(rec, field) ==
  CASE field = "v" -> [rec EXCEPT !.v = Undefined]
    [] field = "c" -> [rec EXCEPT !.c = Undefined]
    [] field = "bl" -> [rec EXCEPT !.bl = Undefined]
    [] field = "bl.h" -> [rec EXCEPT !.bl[1].h = Undefined]
    [] field = "p" -> [rec EXCEPT !.p = Undefined]
    [] field = "w" -> [rec EXCEPT !.w = Undefined]
    [] field = "xcf" -> [rec EXCEPT !.xcf = Undefined]
    [] field = "bl.c" -> [rec EXCEPT !.bl[1].c = Undefined]
    [] field = "iso" -> [rec EXCEPT !.iso = Undefined]
    [] OTHER -> rec

Timestamps(start, gaps) ==
  LET RECURSIVE At(_)
      At(i) == IF i = 1 THEN start ELSE At(i - 1) + gaps[i - 1]
  IN [i \in 1..(Len(gaps) + 1) |-> At(i)]

\* the wire record groups the hour records by UTC calendar day
WireDays(times, levels) ==
  LET RECURSIVE Build(_, _)
      Build(i, days) ==
        IF i > Len(times) THEN days
        ELSE IF i > 1 /\ times[i] \div MinutesPerDay = times[i - 1] \div MinutesPerDay
             THEN Build(i + 1, [days EXCEPT ![Len(days)].h[1] =
                                  Append(@, HourRecord(times[i], levels))])
             ELSE Build(i + 1, Append(days, [th |-> 1,
                                  h |-> Some(<<HourRecord(times[i], levels)>>)]))
  IN Build(1, <<>>)

WireRecord(elevation, times, levels) == [h |-> elevation, d |-> WireDays(times, levels)]

\* Monday 1970-01-05, 06:00 UTC
FirstTimeStep == 4 * MinutesPerDay + 6 * MinutesPerHour
StartTimes == {FirstTimeStep, FirstTimeStep + 3 * MinutesPerHour}
RegularGaps == {3 * MinutesPerHour, 6 * MinutesPerHour, 12 * MinutesPerHour}
IrregularGaps == {20, 6 * MinutesPerHour, 7 * MinutesPerDay}
\* evenly spaced timelines of up to MaxPeriods periods, and every timeline of up
\* to MaxIrregularPeriods periods over IrregularGaps
GapSequences ==
  {[i \in 1..k |-> g] : k \in 0..(MaxPeriods - 1), g \in RegularGaps}
    \cup UNION {[1..k -> IrregularGaps] : k \in 0..(MaxIrregularPeriods - 1)}
Timelines == {<<>>} \cup {Timestamps(s, g) : s \in StartTimes, g \in GapSequences}

ExampleLevels == <<300, 600, 1200>>
Levels == {300, 500, 600, 1200}
Profiles == UNION {[1..k -> Levels] : k \in 0..MaxProfile}
Elevations == {500, 600}
TimezoneOffsets == {0, -420}

InitCommon ==
  /\ locationForecasts = Undefined
  /\ event = "none"
  /\ thrown = "none"

\* the grouping and lookup timelines
Init ==
  /\ InitCommon
  /\ \E times \in Timelines : data = WireRecord(500, times, ExampleLevels)
  /\ metadata = [firstTimeStep |-> FirstTimeStep, latest |-> 12]
  /\ timezoneOffset \in TimezoneOffsets
  /\ detailedView = "sounding"
  /\ hourOffset = MinOffset

Spec == Init /\ [][Next]_vars

\* the decoder's inputs: every profile over Levels, and records lacking one field
RecordTimes == Timestamps(FirstTimeStep + 3 * MinutesPerHour, <<6 * MinutesPerHour, 12 * MinutesPerHour>>)
WellFormed == WireRecord(500, RecordTimes, ExampleLevels)

HourWithout(raw, day, hour, field) ==
  [raw EXCEPT !.d[day].h[1][hour] = Without(@, field)]
DayWithoutHours(raw, day) == [raw EXCEPT !.d[day].h = Undefined]

InitRecord ==
  /\ InitCommon
  /\ \/ \E e \in Elevations, levels \in Profiles : data = WireRecord(e, RecordTimes, levels)
     \/ \E day \in 1..Len(WellFormed.d) :
          \E hour \in 1..Len(WellFormed.d[day].h[1]) :
            \E field \in RequiredFields \cup OptionalFields :
              data = HourWithout(WellFormed, day, hour, field)
     \/ \E day \in 1..Len(WellFormed.d) : data = DayWithoutHours(WellFormed, day)
  /\ metadata = [firstTimeStep |-> FirstTimeStep, latest |-> 12]
  /\ timezoneOffset = 0
  /\ detailedView \in {"meteogram", "sounding"}
  /\ hourOffset = MinOffset

SpecDecode == InitRecord /\ [][Next]_vars

\* the navigation buttons' inputs: any current offset, any latest
NavLatests == {9, 180}
NavOffsets == {3, 10, 180, 200}

InitNav ==
  /\ InitCommon
  /\ data = WellFormed
  /\ \E l \in NavLatests : metadata = [firstTimeStep |-> FirstTimeStep, latest |-> l]
  /\ timezoneOffset = 0
  /\ detailedView = "sounding"
  /\ hourOffset \in NavOffsets

SpecNav == InitNav /\ [][Next]_vars

\* ================================================================ claims
Clamp(x, lo, hi) == IF x < lo THEN lo ELSE IF x > hi THEN hi ELSE x
Delta(e) == CASE e = "previousDay" -> -24 [] e = "previousPeriod" -> -3
              [] e = "nextPeriod" -> 3 [] e = "nextDay" -> 24
NavEvents == {"previousDay", "previousPeriod", "nextPeriod", "nextDay"}
Bounds180 == [firstTimeStep |-> FirstTimeStep, latest |-> 180]

\* C1 (as stated): whatever the current offset and the run's latest, each of the
\* four buttons hands clamp(current + delta, 3, latest) to onHourOffsetChanged.
C1_Claim ==
  [][event' \in NavEvents =>
       hourOffset' = Clamp(hourOffset + Delta(event'), 3, metadata.latest)]_vars

\* C1 (amended): -24 and -3 hand max(current + delta, 3), which is never below 3;
\* +3 and +24 hand min(current + delta, latest), which is never above latest; the
\* result is clamp(current + delta, 3, latest) whenever 3 <= current <= latest;
\* nextOffset(3, previousPeriod) = 3, nextOffset(180, nextDay) = 180 and
\* nextOffset(10, nextPeriod) = 13 under the bounds {3, 180}.
C1_Amended ==
  [][/\ event' \in {"previousDay", "previousPeriod"} =>
          /\ hourOffset' >= 3
          /\ hourOffset' >= hourOffset + Delta(event')
          /\ hourOffset' \in {3, hourOffset + Delta(event')}
     /\ event' \in {"nextPeriod", "nextDay"} =>
          /\ hourOffset' <= metadata.latest
          /\ hourOffset' <= hourOffset + Delta(event')
          /\ hourOffset' \in {metadata.latest, hourOffset + Delta(event')}
     /\ (event' \in NavEvents /\ 3 <= hourOffset /\ hourOffset <= metadata.latest) =>
          hourOffset' = Clamp(hourOffset + Delta(event'), 3, metadata.latest)
     /\ previousPeriodOffset(3, Bounds180) = 3
     /\ nextDayOffset(180, Bounds180) = 180
     /\ nextPeriodOffset(10, Bounds180) = 13]_vars

\* C1 witness: +3 pressed at offset 10 of a run whose latest is 180
C1_Witness == event = "nextPeriod" /\ hourOffset = 13 /\ metadata.latest = 180

\* ------------------------------------------------------------ grouping
\* the weekday of an instant on the local calendar, 0 = Sunday
Weekday(date) == (((date - timezoneOffset) \div MinutesPerDay) + 4) % 7
CalendarDay(date) == (date - timezoneOffset) \div MinutesPerDay

RECURSIVE Concat(_)
Concat(ss) == IF Len(ss) = 0 THEN <<>> ELSE Head(ss) \o Concat(Tail(ss))

\* the index of the bucket of B holding the i-th period
BucketOf(B, i) ==
  CHOOSE b \in 1..Len(B) : \E k \in 1..Len(B[b][1]) : B[b][1][k][1] = i

\* C2: the day buckets partition the chronological input: their concatenation is
\* the input's (period, hourOffset) pairs in order, nothing dropped or duplicated,
\* every bucket is non-empty, and an empty input has no bucket.
C2_Partition ==
  Selected =>
    LET T == Timeline
        B == Buckets
    IN /\ Concat([b \in 1..Len(B) |-> B[b][1]]) = [i \in 1..Len(T) |-> <<i, T[i][1]>>]
       /\ \A b \in 1..Len(B) : Len(B[b][1]) >= 1
       /\ (Len(T) = 0 => Len(B) = 0)

\* C2 witness: seven periods grouped into more than one bucket, one of several periods
C2_Witness ==
  /\ Selected
  /\ LET B == Buckets
     IN /\ Len(Timeline) = 7
        /\ Len(B) >= 2
        /\ \E b \in 1..Len(B) : Len(B[b][1]) >= 3

\* C3: a period joins the last bucket iff its weekday equals the weekday of the
\* period just before it, else it opens a bucket whose date is its own; so a
\* bucket has one weekday, adjacent buckets differ in weekday, and consecutive
\* periods on different calendar dates with the same weekday share a bucket.
C3_WeekdayKey ==
  Selected =>
    LET T == Timeline
        B == Buckets
        day == [i \in 1..Len(T) |-> Weekday(T[i][2])]
    IN /\ \A i \in 1..Len(T) :
            \E b \in 1..Len(B) : \E k \in 1..Len(B[b][1]) : B[b][1][k][1] = i
       /\ \A i \in 2..Len(T) :
            /\ (BucketOf(B, i) = BucketOf(B, i - 1)) <=> (day[i] = day[i - 1])
            /\ BucketOf(B, i) \in {BucketOf(B, i - 1), BucketOf(B, i - 1) + 1}
       /\ \A i \in 1..Len(T) :
            (i = 1 \/ day[i] # day[i - 1]) => B[BucketOf(B, i)][2] = T[i][2]
       /\ \A b \in 1..Len(B) : \A k \in 1..Len(B[b][1]) :
            day[B[b][1][k][1]] = Weekday(B[b][2])
       /\ \A b \in 1..(Len(B) - 1) : Weekday(B[b][2]) # Weekday(B[b + 1][2])

\* C3 witness: two consecutive periods a week apart share a bucket
C3_Witness ==
  /\ Selected
  /\ LET T == Timeline
         B == Buckets
     IN \E i \in 2..Len(T) :
          /\ CalendarDay(T[i][2]) # CalendarDay(T[i - 1][2])
          /\ Weekday(T[i][2]) = Weekday(T[i - 1][2])
          /\ BucketOf(B, i) = BucketOf(B, i - 1)

Labels(B) == [b \in 1..Len(B) |-> DayLabel(B[b][1], B[b][2], timezoneOffset)]
Weekdays(T) == [i \in 1..Len(T) |-> Weekday(T[i][2])]
MonMonMonTueTueTueTue == <<1, 1, 1, 2, 2, 2, 2>>

\* C4: a bucket carries the date label iff it holds exactly periodsPerDay (3)
\* periods, shorter and longer buckets carry the blank label; the weekdays
\* [Mon,Mon,Mon,Tue,Tue,Tue,Tue] give two buckets of sizes 3 and 4, the first
\* labelled and the second blank.
C4_FullDayLabel ==
  Selected =>
    LET B == Buckets
        L == Labels(B)
    IN /\ \A b \in 1..Len(B) :
            /\ (Len(B[b][1]) = 3) <=> (L[b] # Nbsp)
            /\ L[b] # Nbsp => L[b] = <<Weekday(B[b][2]), CalendarDay(B[b][2])>>
       /\ Weekdays(Timeline) = MonMonMonTueTueTueTue =>
            /\ Len(B) = 2
            /\ Len(B[1][1]) = 3 /\ Len(B[2][1]) = 4
            /\ L[1] # Nbsp /\ L[2] = Nbsp

\* C4 witness: the seven periods Mon,Mon,Mon,Tue,Tue,Tue,Tue are grouped
C4_Witness == Selected /\ Weekdays(Timeline) = MonMonMonTueTueTueTue /\ Len(Buckets) = 2

\* ------------------------------------------------------- temporal index
\* the times of the wire record, in wire order
WireTimes ==
  Concat([i \in 1..Len(data.d) |->
            [j \in 1..Len(data.d[i].h[1]) |-> DateParse(data.d[i].h[1][j].t)]])
Chronological(times) == \A i \in 1..(Len(times) - 1) : times[i] < times[i + 1]

\* C5 (as stated): offsetAndDates() is strictly increasing in the hour offset
\* and in the date, so no two entries share an hour offset.
C5_Claim ==
  Selected =>
    LET T == Timeline
    IN \A i \in 1..(Len(T) - 1) : T[i][1] < T[i + 1][1] /\ T[i][2] < T[i + 1][2]

\* C5 (amended): for a record whose times are strictly increasing,
\* offsetAndDates() lists the times in wire order, strictly increasing in the
\* date and non-decreasing in the hour offset; the offset is strictly increasing
\* between entries at least one hour apart, and entries less than one hour apart
\* may share an hour offset.
C5_Amended ==
  (Selected /\ Chronological(WireTimes)) =>
    LET T == Timeline
    IN /\ [i \in 1..Len(T) |-> T[i][2]] = WireTimes
       /\ \A i \in 1..(Len(T) - 1) :
            /\ T[i][2] < T[i + 1][2]
            /\ T[i][1] <= T[i + 1][1]
            /\ (T[i + 1][2] - T[i][2] >= 60 => T[i][1] < T[i + 1][1])
       /\ \A i \in 1..Len(T) :
            /\ 60 * T[i][1] - 30 <= T[i][2] - metadata.firstTimeStep
            /\ T[i][2] - metadata.firstTimeStep < 60 * T[i][1] + 30

\* C5 witness: a timeline over several wire days with two entries sharing an offset
C5_Witness ==
  /\ Selected
  /\ Len(data.d) >= 2
  /\ LET T == Timeline
     IN \E i \in 1..(Len(T) - 1) : T[i][1] = T[i + 1][1] /\ T[i][2] < T[i + 1][2]

Probes == 0..(MaxPeriods * 6 + 4)

\* C6: atHourOffset(offset) is the first forecast, in flattened order, whose hour
\* offset equals `offset`, and undefined when no forecast has exactly that offset
\* (no nearest neighbour); every offset of offsetAndDates() is found, and offset 0
\* is not found when the first offset is 3.
C6_ExactLookup ==
  Selected =>
    LET T == Timeline
        lf == locationForecasts[1]
    IN /\ \A i \in 1..Len(T) :
            LET r == atHourOffset(lf, metadata, T[i][1])
            IN /\ ~IsUndefined(r)
               /\ hourOffsetSinceFirstTimeStep(r[1], metadata.firstTimeStep) = T[i][1]
               /\ \E k \in 1..i : /\ T[k][1] = T[i][1]
                                  /\ r[1].time = T[k][2]
                                  /\ \A j \in 1..(k - 1) : T[j][1] # T[i][1]
       /\ \A o \in Probes :
            (\A i \in 1..Len(T) : T[i][1] # o) => IsUndefined(atHourOffset(lf, metadata, o))
       /\ ((Len(T) > 0 /\ T[1][1] = 3) => IsUndefined(atHourOffset(lf, metadata, 0)))

\* C6 witness: the first offset is 3, offset 0 is looked up and misses, and two
\* forecasts share an offset
C6_Witness ==
  /\ Selected
  /\ LET T == Timeline
     IN /\ Len(T) >= 3
        /\ T[1][1] = 3
        /\ \E i \in 1..(Len(T) - 1) : T[i][1] = T[i + 1][1]
        /\ IsUndefined(atHourOffset(locationForecasts[1], metadata, 0))

\* ------------------------------------------------------------ navigation
\* C9 (as stated): once the current offset is one of the offsets of
\* offsetAndDates(), every button and every selector click leaves it one of
\* them, so the sounding view's lookup never misses.
C9_Claim ==
  [][(Selected /\ hourOffset \in Offsets /\ event' \in NavEvents \cup {"period", "day"}) =>
       (hourOffset' \in Offsets /\ View' # "fallback")]_vars

\* C9 (amended): a click on a period selector, or a click on a day header that
\* does not fail, sets the current offset to one of the offsets of
\* offsetAndDates(), and the sounding view's lookup then hits; the -24, -3, +3 and
\* +24 buttons only clamp, can leave the timeline, and the view then falls back.
C9_Amended ==
  (Selected /\ event \in {"period", "day"} /\ thrown = "none") =>
    /\ hourOffset \in Offsets
    /\ keyAndView("sounding", locationForecasts, metadata, hourOffset) = "sounding"

\* C9 witness: a period selector was clicked and the sounding is shown
C9_Witness == Selected /\ event = "period" /\ hourOffset = 9 /\ View = "sounding"

\* C10: a click on the header of any day bucket, whatever its size, hands
\* onClick the hour offset of a period of that bucket and never fails.
C10_Claim == event = "day" => thrown = "none"

\* -------------------------------------------------------------- decoding
IsAscending(hs) == \A i \in 1..(Len(hs) - 1) : hs[i] <= hs[i + 1]
Above(h) == h > data.h
RawLevels(day, hour) ==
  [k \in 1..Len(data.d[day].h[1][hour].p[1]) |-> data.d[day].h[1][hour].p[1][k].h]

\* C7: aboveGround holds exactly the raw profile's entries whose elevation is
\* strictly above the terrain elevation (an entry at the terrain elevation is
\* removed), in input order, not re-sorted; an ascending profile gives an
\* ascending aboveGround; terrain 500 and profile [300, 600, 1200] give [600, 1200].
C7_AboveGround ==
  Selected =>
    \A day \in 1..Len(data.d) : \A hour \in 1..Len(data.d[day].h[1]) :
      LET raw == RawLevels(day, hour)
          ag == locationForecasts[1].dayForecasts[day].forecasts[hour].aboveGround
          hs == [k \in 1..Len(ag) |-> ag[k].elevation]
      IN /\ hs = SelectSeq(raw, Above)
         /\ \A k \in 1..Len(hs) : hs[k] > data.h
         /\ Len(hs) = Cardinality({k \in 1..Len(raw) : raw[k] > data.h})
         /\ (IsAscending(raw) => IsAscending(hs))
         /\ ((data.h = 500 /\ raw = <<300, 600, 1200>>) => hs = <<600, 1200>>)

\* C7 witness: a decoded profile with an entry at the terrain elevation, one below
\* and one above it; and the profile [300, 600, 1200] on terrain 500
C7_Witness ==
  /\ Selected
  /\ data.h = 500
  /\ RawLevels(1, 1) = <<1200, 500, 300>>
  /\ Len(locationForecasts[1].dayForecasts[1].forecasts[1].aboveGround) = 1

HourLacksRequired(hr) ==
  \/ IsUndefined(hr.v) \/ IsUndefined(hr.c) \/ IsUndefined(hr.bl)
  \/ IsUndefined(hr.p) \/ IsUndefined(hr.w)
  \/ (~IsUndefined(hr.bl) /\ IsUndefined(hr.bl[1].h))
LacksRequired(raw) ==
  \E i \in 1..Len(raw.d) :
    \/ IsUndefined(raw.d[i].h)
    \/ \E j \in 1..Len(raw.d[i].h[1]) : HourLacksRequired(raw.d[i].h[1][j])

\* C8: decoding a record that lacks a required numeric field (v, c, bl.h, a day's
\* hour array, ...) ends in a decode error and never yields a LocationForecasts;
\* only xcf, bl.c and iso may be absent.
C8_Claim == LacksRequired(data) => ~Selected

====
